---- MODULE Spec2Model ----
(***************************************************************************)
(* The useServerSentEvents hook (src/src/hooks/useServerSentEvents.ts) as  *)
(* a state machine.                                                        *)
(*                                                                         *)
(* The hook keeps four pieces of React state (status, data, error,         *)
(* retryCount) and three refs (eventSourceRef, retryTimeoutRef,            *)
(* isMounted).  A handler runs to completion; the state setters it calls   *)
(* only queue updates, which the next render commits.  The closures of a   *)
(* render (the listeners bound by setupEventHandlers, reconnect) read the  *)
(* values of that render.  retryConfig is a fresh object in every render   *)
(* (lines 67-70), so calculateRetryDelay, attemptReconnect and             *)
(* setupEventHandlers are fresh callbacks in every render and the          *)
(* subscribing effect (lines 224-237) is cleaned up and run again after    *)
(* every render, in a task of its own.                                     *)
(***************************************************************************)
EXTENDS Integers, Sequences, FiniteSets, TLC

\* Bounds of the model.
MaxInstances == 3       \* EventSource objects constructed in one run
MaxTimers == 2          \* setTimeout calls in one run
MaxMaxAttempts == 2     \* largest retry.maxAttempts configured
RandomSteps == 2        \* Math.random() draws are k / RandomSteps

VARIABLES
    status, data, error, retryCount,   \* the values of the last committed render
    queued,          \* the state after the queued setState updates
    errNew,          \* queued.error is an SSEError object made since the last commit
    dataNew,         \* queued.data is an object parsed since the last commit
    eventSourceRef,  \* index in instances of eventSourceRef.current, 0 for null
    retryTimeoutRef, \* id held by retryTimeoutRef.current, 0 for undefined
    isMounted,       \* isMounted.current
    instances,       \* every EventSource constructed so far, in order
    timers,          \* the pending setTimeout callbacks
    effectSse,       \* the sse captured by the cleanup of the last effect run
    effectPending,   \* a render was committed and its effect has not run yet
    rendered,        \* the retryCount values of the renders so far
    maxAttempts,     \* retryConfig.maxAttempts
    shouldRetryCfg,  \* which retryConfig.shouldRetry predicate is configured
    retryConfig,     \* initialDelayMs, maxDelayMs, backoffFactor, jitterFactor (in %)
    scheduled,       \* the delay attemptReconnect computed last
    onCloseCalls,    \* calls of options.onClose made by the last step
    retriesFired,    \* retry timers that fired and opened a connection (history)
    pristine,        \* no signal, timer or command has been handled yet
    last             \* the step taken last (history)

vars == << status, data, error, retryCount, queued, errNew, dataNew,
           eventSourceRef, retryTimeoutRef, isMounted, instances, timers,
           effectSse, effectPending, rendered, maxAttempts, shouldRetryCfg, retryConfig,
           scheduled, onCloseCalls, retriesFired, pristine, last >>

\* SSEStatus (line 13)
SSEStatus == {"CONNECTING", "OPEN", "CLOSED", "ERROR"}

\* SSEError.code as the hook sets it; "null" is the absent error.
ErrorCodes == {"null", "CONNECTION_ERROR", "PARSE_ERROR", "MAX_RETRY_EXCEEDED"}

\* Raw payloads a message event may carry.
Payloads == {"{\"message\":\"test\"}", "invalid-json"}

\* The shouldRetry predicates considered: the default () => true (line 50),
\* a predicate that always returns false, and (error, n) => n < 1.
ShouldRetryChoices == {"always", "never", "once"}

\* JSON.parse(event.data) (line 153): the decoded value, whether it is an
\* object (a new identity on every parse) and whether parsing throws.
JSONparse(p) ==
    IF p = "{\"message\":\"test\"}"
    THEN [ok |-> TRUE, value |-> "object message=test", isObject |-> TRUE]
    ELSE [ok |-> FALSE, value |-> "null", isObject |-> FALSE]

\* DEFAULT_RETRY_CONFIG (lines 45-52), the delay fields; jitterFactor 0.1 is 10 %.
DEFAULT_RETRY_CONFIG ==
    [initialDelayMs |-> 1000, maxDelayMs |-> 30000, backoffFactor |-> 2,
     jitterPct |-> 10]

\* The retry configurations the delay is computed for: DEFAULT_RETRY_CONFIG
\* with overrides (lines 67-70), maxDelayMs >= initialDelayMs > 0.
RetryConfigs ==
    {c \in [initialDelayMs : {1, 1000}, maxDelayMs : {2, 1000, 3000, 30000},
            backoffFactor : {1, 2, 3}, jitterPct : {0, 10, 50, 100}] :
        c.maxDelayMs >= c.initialDelayMs}

\* Delays are kept in units of 1 / DelayUnit ms, so that the jitter
\* baseDelay * (jitterPct / 100) * (k / RandomSteps) is a whole number.
DelayUnit == 100 * RandomSteps

\* The values Math.random() * 2 - 1 takes (line 83), times RandomSteps:
\* Math.random() is in [0, 1), so the value is in [-1, 1).
RandomDraws == (0 - RandomSteps)..(RandomSteps - 1)

\* The draws to tell apart under cfg: with jitterFactor 0 the jitter is 0
\* whatever Math.random() returns (lines 80-83).
Draws(cfg) == IF cfg.jitterPct = 0 THEN {0} ELSE RandomDraws

\* Math.pow(b, n) for whole n >= 0 (line 76)
RECURSIVE Pow(_, _)
Pow(b, n) == IF n = 0 THEN 1 ELSE b * Pow(b, n - 1)

\* Math.min (line 85)
Min(a, b) == IF a <= b THEN a ELSE b

\* A calculateRetryDelay that starts the exponent at 1.
calculateRetryDelayOffByOne(cfg, attempt, k) ==
    LET baseDelay == cfg.initialDelayMs * Pow(cfg.backoffFactor, attempt + 1)
        jitter == baseDelay * cfg.jitterPct * k
    IN  Min(baseDelay * DelayUnit + jitter, cfg.maxDelayMs * DelayUnit)

\* A calculateRetryDelay that clamps before it adds the jitter.
calculateRetryDelayClampsFirst(cfg, attempt, k) ==
    LET baseDelay == cfg.initialDelayMs * Pow(cfg.backoffFactor, attempt)
        jitter == baseDelay * cfg.jitterPct * k
    IN  Min(baseDelay * DelayUnit, cfg.maxDelayMs * DelayUnit) + jitter

\* calculateRetryDelay (lines 72-88), in units of 1 / DelayUnit ms; k is the
\* random draw times RandomSteps.
calculateRetryDelay(cfg, attempt, k) ==
    LET baseDelay == cfg.initialDelayMs * Pow(cfg.backoffFactor, attempt)
        jitter == baseDelay * cfg.jitterPct * k
    IN  Min(baseDelay * DelayUnit + jitter, cfg.maxDelayMs * DelayUnit)

\* The program state as one record, so that the steps of a handler compose.
St ==
    [status |-> status, data |-> data, error |-> error, retryCount |-> retryCount,
     queued |-> queued, errNew |-> errNew, dataNew |-> dataNew,
     eventSourceRef |-> eventSourceRef, retryTimeoutRef |-> retryTimeoutRef,
     isMounted |-> isMounted, instances |-> instances, timers |-> timers,
     effectSse |-> effectSse, effectPending |-> effectPending,
     rendered |-> rendered,
     scheduled |-> scheduled, onCloseCalls |-> 0,
     retriesFired |-> retriesFired]

\* ---------------------------------------------------------------- setters
\* setStatus (line 58): queues the new status.
setStatus(s, v) == [s EXCEPT !.queued.status = v]

\* setData (line 59)
setData(s, v, isObject) == [s EXCEPT !.queued.data = v, !.dataNew = isObject]

\* setError (line 60): every SSEError is a new object.
setError(s, code) == [s EXCEPT !.queued.error = code, !.errNew = (code # "null")]

\* setRetryCount (line 61)
setRetryCount(s, n) == [s EXCEPT !.queued.retryCount = n]

\* ------------------------------------------------------ transport and timers
\* EventSource.close(): the object delivers nothing afterwards.
closeInstance(s, i) ==
    [s EXCEPT !.instances[i] = [closed |-> TRUE, bound |-> FALSE, rc |-> 0]]

\* clearTimeout(id): a no-op when that timer has fired or was cleared.
clearTimeout(s, id) == [s EXCEPT !.timers = {t \in s.timers : t.id # id}]

\* retryConfig.shouldRetry?.(currentError, retryCount) (line 180)
shouldRetry(cfg, attemptCount) ==
    CASE cfg = "always" -> TRUE
      [] cfg = "never" -> FALSE
      [] OTHER -> attemptCount < 1

\* ----------------------------------------------------------- the callbacks
\* options.onClose?.() (line 95)
onClose(s) == [s EXCEPT !.onCloseCalls = @ + 1]

\* A close that sets CLOSED and notifies outside the guard of line 91.
closeNotifiesAlways(s) ==
    LET s1 == IF s.eventSourceRef # 0
              THEN [closeInstance(s, s.eventSourceRef) EXCEPT !.eventSourceRef = 0]
              ELSE s
        s2 == onClose(setStatus(s1, "CLOSED"))
    IN  IF s2.retryTimeoutRef # 0 THEN clearTimeout(s2, s2.retryTimeoutRef) ELSE s2

\* A close that drops the handle without closing the connection (line 92
\* left out).
closeKeepsConnection(s) ==
    LET s1 == IF s.eventSourceRef # 0
              THEN onClose(setStatus([s EXCEPT !.eventSourceRef = 0], "CLOSED"))
              ELSE s
    IN  IF s1.retryTimeoutRef # 0 THEN clearTimeout(s1, s1.retryTimeoutRef) ELSE s1

\* close (lines 90-100)
close(s) ==
    LET s1 == IF s.eventSourceRef # 0
              THEN onClose(setStatus([closeInstance(s, s.eventSourceRef)
                                         EXCEPT !.eventSourceRef = 0], "CLOSED"))
              ELSE s
    IN  IF s1.retryTimeoutRef # 0 THEN clearTimeout(s1, s1.retryTimeoutRef) ELSE s1

\* A createEventSource that does not close the existing connection first
\* (lines 130-132 left out).
createEventSourceKeepsOld(s) ==
    LET s2 == [s EXCEPT !.instances =
                   Append(@, [closed |-> FALSE, bound |-> FALSE, rc |-> 0])]
    IN  setStatus([s2 EXCEPT !.eventSourceRef = Len(s2.instances)], "CONNECTING")

\* createEventSource (lines 128-141)
createEventSource(s) ==
    LET s1 == IF s.eventSourceRef # 0 THEN closeInstance(s, s.eventSourceRef) ELSE s
        s2 == [s1 EXCEPT !.instances =
                   Append(@, [closed |-> FALSE, bound |-> FALSE, rc |-> 0])]
    IN  setStatus([s2 EXCEPT !.eventSourceRef = Len(s2.instances)], "CONNECTING")

\* An attemptReconnect whose limit check is attempt > maxAttempts (line 106).
attemptReconnectOffByOne(s, max, attempt, rcfg, k) ==
    IF ~s.isMounted THEN s
    ELSE IF attempt > max
         THEN setError(setStatus(s, "ERROR"), "MAX_RETRY_EXCEEDED")
         ELSE [s EXCEPT !.scheduled =
                            [set |-> TRUE, attempt |-> attempt,
                             delay |-> calculateRetryDelay(rcfg, attempt, k)],
                        !.retryTimeoutRef = @ + 1,
                        !.timers = @ \cup {[id |-> s.retryTimeoutRef + 1,
                                            attempt |-> attempt]}]

\* attemptReconnect (lines 102-126): rcfg is retryConfig, k the random draw
\* calculateRetryDelay makes; the timer set holds the callback of lines 119-123.
attemptReconnect(s, max, attempt, rcfg, k) ==
    IF ~s.isMounted THEN s
    ELSE IF attempt >= max
         THEN setError(setStatus(s, "ERROR"), "MAX_RETRY_EXCEEDED")
         ELSE [s EXCEPT !.scheduled =
                            [set |-> TRUE, attempt |-> attempt,
                             delay |-> calculateRetryDelay(rcfg, attempt, k)],
                        !.retryTimeoutRef = @ + 1,
                        !.timers = @ \cup {[id |-> s.retryTimeoutRef + 1,
                                            attempt |-> attempt]}]

\* the setTimeout callback of attemptReconnect (lines 119-123)
retryCallback(s, t) ==
    LET s1 == [s EXCEPT !.timers = @ \ {t}]
    IN  IF ~s1.isMounted THEN s1
        ELSE createEventSource(setRetryCount([s1 EXCEPT !.retriesFired = @ + 1],
                                             t.attempt + 1))

\* setupEventHandlers (lines 143-215): binds three listeners to sse.  The
\* function is a closure of one render and so are the listeners it makes:
\* they read rc, the retryCount of that render.
setupEventHandlers(s, i, rc) ==
    [s EXCEPT !.instances[i] = [closed |-> @.closed, bound |-> TRUE, rc |-> rc]]

\* the function setupEventHandlers returns (lines 198-203)
unbind(s, i) == closeInstance(s, i)

\* messageHandler (lines 147-166)
messageHandler(s, p) ==
    IF ~s.isMounted THEN s
    ELSE LET r == JSONparse(p)
         IN  IF r.ok THEN setData(s, r.value, r.isObject)
             ELSE setError(s, "PARSE_ERROR")

\* An errorHandler without the isMounted guard of line 169.
errorHandlerNoGuard(s, max, cfg, rc, rcfg, k) ==
    LET s1 == setError(setStatus(s, "ERROR"), "CONNECTION_ERROR")
    IN  IF shouldRetry(cfg, rc) THEN attemptReconnect(s1, max, rc, rcfg, k) ELSE s1

\* errorHandler (lines 168-183); rc is the retryCount the listener closed
\* over, rcfg and k are passed on to attemptReconnect
errorHandler(s, max, cfg, rc, rcfg, k) ==
    IF ~s.isMounted THEN s
    ELSE LET s1 == setError(setStatus(s, "ERROR"), "CONNECTION_ERROR")
         IN  IF shouldRetry(cfg, rc)
             THEN attemptReconnect(s1, max, rc, rcfg, k) ELSE s1

\* An openHandler that forgets setRetryCount(0) (line 190).
openHandlerKeepsRetryCount(s) ==
    IF ~s.isMounted THEN s
    ELSE setError(setStatus(s, "OPEN"), "null")

\* An openHandler that forgets setError(null) (line 189).
openHandlerKeepsError(s) ==
    IF ~s.isMounted THEN s
    ELSE setRetryCount(setStatus(s, "OPEN"), 0)

\* openHandler (lines 185-192)
openHandler(s) ==
    IF ~s.isMounted THEN s
    ELSE setRetryCount(setError(setStatus(s, "OPEN"), "null"), 0)

\* A reconnect that forgets setRetryCount(0) (line 218).
reconnectKeepsRetryCount(s, rc) ==
    LET s1 == createEventSource(s)
    IN  setupEventHandlers(s1, s1.eventSourceRef, rc)

\* reconnect (lines 217-222), the function a render with retryCount rc
\* returned: it calls the setupEventHandlers of that render.
reconnect(s, rc) ==
    LET s1 == createEventSource(setRetryCount(s, 0))
    IN  setupEventHandlers(s1, s1.eventSourceRef, rc)

\* the cleanup the effect returns (lines 230-236)
effectCleanup(s) ==
    LET s1 == unbind([s EXCEPT !.isMounted = FALSE], s.effectSse)
    IN  IF s1.retryTimeoutRef # 0 THEN clearTimeout(s1, s1.retryTimeoutRef) ELSE s1

\* the effect (lines 225-228), of the render committed last
effect(s) ==
    LET s1 == createEventSource([s EXCEPT !.isMounted = TRUE])
        s2 == setupEventHandlers(s1, s1.eventSourceRef, s.retryCount)
    IN  [s2 EXCEPT !.effectSse = s1.eventSourceRef, !.effectPending = FALSE]

\* A render commits the queued state (lines 58-61 return the new values) and
\* leaves the effect to run: setupEventHandlers, a dependency of the effect
\* (line 237), is new in every render.
commit(s) ==
    [s EXCEPT !.status = s.queued.status, !.data = s.queued.data,
              !.error = s.queued.error, !.retryCount = s.queued.retryCount,
              !.errNew = FALSE, !.dataNew = FALSE, !.effectPending = TRUE,
              !.rendered = @ \cup {s.queued.retryCount}]

\* React renders again when a queued update changed a state value (Object.is).
NeedsRender ==
    \/ queued # [status |-> status, data |-> data, error |-> error,
                 retryCount |-> retryCount]
    \/ errNew
    \/ dataNew

\* ------------------------------------------------------------------ steps
WithinBounds(t) ==
    /\ Len(t.instances) <= MaxInstances
    /\ t.retryTimeoutRef <= MaxTimers

Apply(t) ==
    /\ WithinBounds(t)
    /\ status' = t.status
    /\ data' = t.data
    /\ error' = t.error
    /\ retryCount' = t.retryCount
    /\ queued' = t.queued
    /\ errNew' = t.errNew
    /\ dataNew' = t.dataNew
    /\ eventSourceRef' = t.eventSourceRef
    /\ retryTimeoutRef' = t.retryTimeoutRef
    /\ isMounted' = t.isMounted
    /\ instances' = t.instances
    /\ timers' = t.timers
    /\ effectSse' = t.effectSse
    /\ effectPending' = t.effectPending
    /\ rendered' = t.rendered
    /\ scheduled' = t.scheduled
    /\ onCloseCalls' = t.onCloseCalls
    /\ retriesFired' = t.retriesFired
    /\ UNCHANGED << maxAttempts, shouldRetryCfg, retryConfig >>

Step(op, handled, rc) ==
    [op |-> op, handled |-> handled, live |-> isMounted, rc |-> rc,
     pre |-> [status |-> queued.status, retryCount |-> queued.retryCount]]

Live(i) == i \in 1..Len(instances) /\ ~instances[i].closed

\* The transport delivers an open signal on a connection that is not closed.
OpenSignal(i) ==
    /\ Live(i)
    /\ Apply(IF instances[i].bound THEN openHandler(St) ELSE St)
    /\ last' = Step("open", instances[i].bound, instances[i].rc)
    /\ pristine' = FALSE

\* The transport delivers a message carrying payload p.
MessageSignal(i, p) ==
    /\ Live(i)
    /\ Apply(IF instances[i].bound THEN messageHandler(St, p) ELSE St)
    /\ last' = Step(IF JSONparse(p).ok THEN "message" ELSE "badmessage",
                    instances[i].bound, instances[i].rc)
    /\ pristine' = FALSE

\* The transport delivers an error signal; k is what Math.random() returns
\* when the handler gets as far as calculateRetryDelay.
ErrorSignal(i) ==
    /\ Live(i)
    /\ \E k \in Draws(retryConfig) :
          Apply(IF instances[i].bound
                THEN errorHandler(St, maxAttempts, shouldRetryCfg,
                                  instances[i].rc, retryConfig, k)
                ELSE St)
    /\ last' = Step("error", instances[i].bound, instances[i].rc)
    /\ pristine' = FALSE

\* A pending retry timer fires.
TimerFire(id) ==
    /\ \E t \in timers :
          /\ t.id = id
          /\ Apply(retryCallback(St, t))
          /\ last' = Step("timer", TRUE, t.attempt)
    /\ pristine' = FALSE

\* The consumer calls close(); the function stays callable after unmount.
Close ==
    /\ Apply(close(St))
    /\ last' = Step("close", TRUE, retryCount)
    /\ pristine' = FALSE

\* The consumer calls reconnect(): the function the last render returned, or
\* one an earlier render returned and the consumer kept (in a ref, a timer, a
\* memoised child); rc is the retryCount of that render.  The function stays
\* callable after unmount.
Reconnect(rc) ==
    /\ rc \in rendered
    /\ Apply(reconnect(St, rc))
    /\ last' = Step("reconnect", TRUE, rc)
    /\ pristine' = FALSE

\* React renders the component, for an update the hook queued or for any
\* other reason (a parent render), and commits the queued updates.  React
\* runs the effect of the render before it renders again.
Render ==
    /\ isMounted
    /\ ~effectPending
    /\ Apply(commit(St))
    /\ last' = Step("render", TRUE, queued.retryCount)
    /\ UNCHANGED pristine

\* React runs the effect of the committed render, in a later task: the
\* cleanup of the effect before it, if there is one, then the effect
\* (lines 224-237).  The first run has no cleanup before it.
RunEffect ==
    /\ isMounted
    /\ effectPending
    /\ Apply(effect(IF effectSse = 0 THEN St ELSE effectCleanup(St)))
    /\ last' = Step("effect", TRUE, retryCount)
    /\ UNCHANGED pristine

\* The component unmounts: the cleanup of the last effect runs.  React runs
\* an effect that is still to run before it unmounts.
Unmount ==
    /\ isMounted
    /\ ~effectPending
    /\ Apply(effectCleanup(St))
    /\ last' = Step("unmount", TRUE, retryCount)
    /\ UNCHANGED pristine

\* No delay computed yet.
NotScheduled == [set |-> FALSE, attempt |-> 0, delay |-> 0]

\* The first render (lines 58-65): the useState and useRef initial values,
\* no connection yet, the first effect still to run.
HookInit ==
    /\ status = "CLOSED"
    /\ data = "null"
    /\ error = "null"
    /\ retryCount = 0
    /\ queued = [status |-> "CLOSED", data |-> "null", error |-> "null",
                 retryCount |-> 0]
    /\ errNew = FALSE
    /\ dataNew = FALSE
    /\ eventSourceRef = 0
    /\ retryTimeoutRef = 0
    /\ isMounted = TRUE
    /\ instances = << >>
    /\ timers = {}
    /\ effectSse = 0
    /\ effectPending = TRUE
    /\ rendered = {0}
    /\ onCloseCalls = 0
    /\ retriesFired = 0
    /\ pristine = TRUE
    /\ last = [op |-> "init", handled |-> TRUE, live |-> TRUE, rc |-> 0,
               pre |-> [status |-> "CLOSED", retryCount |-> 0]]

\* The first render returned the useState initial values (lines 58-61); the
\* effect has not run yet (lines 224-228).  The consumer passed
\* retry: {jitterFactor: 0}, so the delay does not vary with the random draw
\* (SpecDelay and SpecRetry cover the default and the other configurations).
Init ==
    /\ maxAttempts \in 0..MaxMaxAttempts
    /\ shouldRetryCfg \in ShouldRetryChoices
    /\ retryConfig = [DEFAULT_RETRY_CONFIG EXCEPT !.jitterPct = 0]
    /\ scheduled = NotScheduled
    /\ HookInit

Next ==
    \/ \E i \in 1..MaxInstances : OpenSignal(i)
    \/ \E i \in 1..MaxInstances, p \in Payloads : MessageSignal(i, p)
    \/ \E i \in 1..MaxInstances : ErrorSignal(i)
    \/ \E id \in 1..MaxTimers : TimerFire(id)
    \/ Close
    \/ \E rc \in 0..MaxMaxAttempts : Reconnect(rc)
    \/ Render
    \/ RunEffect
    \/ Unmount

Spec == Init /\ [][Next]_vars

\* The hook left to itself: the consumer calls neither close() nor
\* reconnect(), the component stays mounted, and the transport delivers
\* nothing but error signals.
NextRetry ==
    \/ \E i \in 1..MaxInstances : ErrorSignal(i)
    \/ \E id \in 1..MaxTimers : TimerFire(id)
    \/ Render
    \/ RunEffect

\* The retry delays: every retry configuration, the default shouldRetry.
InitDelay ==
    /\ maxAttempts \in 1..(MaxMaxAttempts + 1)
    /\ shouldRetryCfg = "always"
    /\ retryConfig \in RetryConfigs
    /\ scheduled = NotScheduled
    /\ HookInit

SpecDelay == InitDelay /\ [][NextRetry]_vars

\* The default retry options.
InitRetry ==
    /\ maxAttempts \in 0..MaxMaxAttempts
    /\ shouldRetryCfg = "always"
    /\ retryConfig = DEFAULT_RETRY_CONFIG
    /\ scheduled = NotScheduled
    /\ HookInit

\* Every connection that stays live errors, every timer that stays pending
\* fires, React renders whenever an update is queued and runs the effect of
\* every render.
SpecRetry ==
    /\ InitRetry
    /\ [][NextRetry]_vars
    /\ \A i \in 1..MaxInstances : WF_vars(ErrorSignal(i))
    /\ \A id \in 1..MaxTimers : WF_vars(TimerFire(id))
    /\ WF_vars(NeedsRender /\ Render)
    /\ WF_vars(RunEffect)

TypeOK ==
    /\ status \in SSEStatus
    /\ error \in ErrorCodes
    /\ queued.status \in SSEStatus
    /\ queued.error \in ErrorCodes
    /\ eventSourceRef \in 0..Len(instances)
    /\ retryTimeoutRef \in 0..MaxTimers
    /\ effectSse \in 0..Len(instances)
    /\ effectPending \/ effectSse # 0
    /\ rendered \subseteq 0..maxAttempts
    /\ retriesFired \in 0..MaxTimers

\* ------------------------------------------------------------------ claims
Session == << status, data, error, retryCount, queued >>

Created == Len(instances)

MaxRetry == "MAX_RETRY_EXCEEDED"

\* C1: with the default shouldRetry, once retryCount equals maxAttempts an
\* error signal that is handled creates no connection, schedules no retry and
\* leaves the session at ERROR / MAX_RETRY_EXCEEDED, and nothing but
\* reconnect() or close() (or a later open signal, message or unmount) moves
\* it from there or opens a connection.
C1_ExhaustionIsTerminal ==
    [][ (isMounted /\ shouldRetryCfg = "always" /\ queued.retryCount = maxAttempts)
        => /\ (last'.op = "error" /\ last'.handled)
                => /\ Created' = Created
                   /\ timers' = timers
                   /\ queued'.status = "ERROR"
                   /\ queued'.error = MaxRetry
           /\ (/\ queued.status = "ERROR"
               /\ queued.error = MaxRetry
               /\ last'.op \in {"error", "timer", "render", "effect"})
                => /\ Created' = Created
                   /\ queued'.status = "ERROR"
                   /\ queued'.error = MaxRetry ]_vars

\* C2: every retry that fires while the subscription is live raises
\* retryCount by exactly one (so N fired retries give N), and a handled open
\* signal or reconnect() sets it to 0.
C2_RetryCountCountsFiredRetries ==
    [][ isMounted
        => /\ (last'.op = "timer")
                => queued'.retryCount = queued.retryCount + 1
           /\ ((last'.op = "open" /\ last'.handled) \/ last'.op = "reconnect")
                => queued'.retryCount = 0 ]_vars

\* close() has discarded the handle: once the first effect has run, only
\* close() leaves eventSourceRef.current null (line 93).
Discarded == eventSourceRef = 0 /\ effectSse # 0

\* C3: after close() (the subscription was set up and eventSourceRef.current
\* is null) nothing but reconnect() creates a connection or schedules a retry.
C3_NoAttemptAfterClose ==
    [][ (Discarded /\ last'.op # "reconnect")
        => /\ Created' = Created
           /\ timers' \subseteq timers ]_vars

\* C4: reconnect() cancels every pending retry.
C4_ReconnectCancelsRetry ==
    [][ (last'.op = "reconnect") => timers' = {} ]_vars

\* C5: when teardown has run, no connection is live and no retry timer is
\* pending.
C5_TeardownReleasesAll ==
    (last.op = "unmount")
        => /\ \A i \in 1..Len(instances) : instances[i].closed
           /\ timers = {}

\* The steps in which the transport delivers a signal or a timer fires.
Deliveries == {"open", "message", "badmessage", "error", "timer"}

\* C6: after teardown every signal that is delivered and every timer that
\* fires leaves status, data, error and retryCount as they were, schedules no
\* retry and opens no connection.
C6_LateDeliveryIsNoOp ==
    [][ (~isMounted /\ last'.op \in Deliveries)
        => /\ Session' = Session
           /\ timers' \subseteq timers
           /\ instances' = instances
           /\ eventSourceRef' = eventSourceRef ]_vars

\* C6 witness: a listener of a connection that outlived teardown was invoked
\* with an error signal after the unmount.
C6_Witness ==
    /\ ~isMounted
    /\ last.op = "error"
    /\ last.handled
    /\ ~last.live

\* C7: an error signal handled while retryCount is below maxAttempts and for
\* which shouldRetry returns false schedules no retry, opens no connection,
\* leaves retryCount at its value before the error and leaves the session at
\* ERROR / CONNECTION_ERROR; and with a shouldRetry that returns false, once
\* the first effect has run, the session stays there and no connection is
\* opened until reconnect() or close() is called (or an open signal, a
\* message or the unmount comes).
C7_ShouldRetryFalseStaysError ==
    [][ isMounted
        => /\ (/\ last'.op = "error"
               /\ last'.handled
               /\ queued.retryCount < maxAttempts
               /\ ~shouldRetry(shouldRetryCfg, last'.rc))
                => /\ timers' = timers
                   /\ instances' = instances
                   /\ queued'.retryCount = queued.retryCount
                   /\ queued'.status = "ERROR"
                   /\ queued'.error = "CONNECTION_ERROR"
           /\ (/\ shouldRetryCfg = "never"
               /\ effectSse # 0
               /\ queued.status = "ERROR"
               /\ queued.error = "CONNECTION_ERROR"
               /\ last'.op \in {"error", "timer", "render", "effect"})
                => /\ Created' = Created
                   /\ timers' = timers
                   /\ queued'.status = "ERROR"
                   /\ queued'.error = "CONNECTION_ERROR" ]_vars

\* C8: after an open signal is handled while the subscription is live, the
\* session has status OPEN, no error and retryCount 0.
C8_OpenResetsSession ==
    (last.op = "open" /\ last.handled /\ last.live)
        => /\ queued.status = "OPEN"
           /\ queued.error = "null"
           /\ queued.retryCount = 0

\* C8 witness: an open signal handled in state ERROR with retryCount > 0.
C8_Witness ==
    /\ last.op = "open"
    /\ last.handled
    /\ last.live
    /\ last.pre.status = "ERROR"
    /\ last.pre.retryCount > 0
    /\ queued.status = "OPEN"

\* C9: until the first signal, timer or command is handled, the status the
\* consumer sees is CONNECTING.
C9_InitiallyConnecting ==
    (pristine /\ isMounted) => status = "CONNECTING"

\* C10: a handled message whose payload fails to decode sets error to
\* PARSE_ERROR, leaves status, data and retryCount as they were, schedules no
\* retry and opens no connection; once the first effect has run, the render
\* and the effect that follow the update, while PARSE_ERROR stands, open no
\* connection and leave status and retryCount as they were either.
C10_ParseErrorKeepsSession ==
    [][ isMounted
        => /\ (last'.op = "badmessage" /\ last'.handled)
                => /\ queued'.error = "PARSE_ERROR"
                   /\ queued'.status = queued.status
                   /\ queued'.data = queued.data
                   /\ queued'.retryCount = queued.retryCount
                   /\ timers' = timers
                   /\ instances' = instances
           /\ (/\ queued.error = "PARSE_ERROR"
               /\ effectSse # 0
               /\ last'.op \in {"render", "effect"})
                => /\ queued'.error = "PARSE_ERROR"
                   /\ queued'.status = queued.status
                   /\ queued'.data = queued.data
                   /\ queued'.retryCount = queued.retryCount
                   /\ instances' = instances ]_vars

\* C11: when an error signal is handled while the subscription is live and
\* retryCount (of the last render and after the queued updates) is below
\* maxAttempts, the session is left at ERROR / CONNECTION_ERROR and data is
\* left as it was.
C11_ErrorSetsConnectionError ==
    [][ (/\ isMounted
         /\ last'.op = "error"
         /\ last'.handled
         /\ retryCount < maxAttempts
         /\ queued.retryCount < maxAttempts)
        => /\ queued'.status = "ERROR"
           /\ queued'.error = "CONNECTION_ERROR"
           /\ queued'.data = queued.data ]_vars

\* C12: reconnect() sets retryCount to 0 and status to CONNECTING and opens
\* one new connection at once, which becomes the current one, with the
\* listeners bound to it.
C12_ReconnectOpensAtOnce ==
    [][ (last'.op = "reconnect")
        => /\ queued'.retryCount = 0
           /\ queued'.status = "CONNECTING"
           /\ Created' = Created + 1
           /\ eventSourceRef' = Created'
           /\ ~instances'[eventSourceRef'].closed
           /\ instances'[eventSourceRef'].bound ]_vars

\* C12 witness: reconnect() called in the terminal state ERROR /
\* MAX_RETRY_EXCEEDED while the component is mounted.
C12_Witness ==
    /\ last.op = "reconnect"
    /\ last.live
    /\ last.pre.status = "ERROR"
    /\ last.pre.retryCount = maxAttempts
    /\ queued.error = MaxRetry
    /\ queued.retryCount = 0
    /\ queued.status = "CONNECTING"

\* C13: close() called while a connection handle is held closes and discards
\* the handle, sets status CLOSED and calls onClose exactly once, and the
\* status then remains CLOSED (with no handle) until reconnect() is called.
C13_CloseClosesUntilReconnect ==
    [][ isMounted
        => /\ (last'.op = "close" /\ eventSourceRef # 0)
                => /\ instances'[eventSourceRef].closed
                   /\ eventSourceRef' = 0
                   /\ queued'.status = "CLOSED"
                   /\ onCloseCalls' = 1
           /\ (/\ Discarded
               /\ queued.status = "CLOSED"
               /\ last'.op \notin {"reconnect", "unmount"})
                => /\ queued'.status = "CLOSED"
                   /\ eventSourceRef' = 0 ]_vars

\* C14: a close() called when close() has already discarded the handle
\* changes neither the session nor the handle nor the connections, does not
\* call onClose and schedules nothing.
C14_SecondCloseIsNoOp ==
    [][ (last'.op = "close" /\ eventSourceRef = 0)
        => /\ Session' = Session
           /\ eventSourceRef' = eventSourceRef
           /\ instances' = instances
           /\ timers' = timers
           /\ retryTimeoutRef' = retryTimeoutRef
           /\ onCloseCalls' = 0 ]_vars

\* C14 witness: the subscription was set up, a close() closed the connection
\* and discarded the handle, and close() was called again while the handle
\* was null.
C14_Witness ==
    /\ last.op = "close"
    /\ last.pre.status = "CLOSED"
    /\ effectSse # 0
    /\ eventSourceRef = 0
    /\ onCloseCalls = 0
    /\ queued.status = "CLOSED"
    /\ timers = {}

\* The base delay initialDelayMs * backoffFactor^n of the scheduled attempt.
ScheduledBase ==
    retryConfig.initialDelayMs * Pow(retryConfig.backoffFactor, scheduled.attempt)

\* C15: with jitterFactor = 0 the delay scheduled for attempt n is
\* min(initialDelayMs * backoffFactor^n, maxDelayMs); with initialDelayMs =
\* 1000 and backoffFactor = 2 (maxDelayMs 30000) that is 1000 ms for attempt 0
\* and 2000 ms for attempt 1.
C15_DelayWithoutJitter ==
    (scheduled.set /\ retryConfig.jitterPct = 0)
        => /\ scheduled.delay
                = Min(ScheduledBase, retryConfig.maxDelayMs) * DelayUnit
           /\ (/\ retryConfig.initialDelayMs = 1000
               /\ retryConfig.backoffFactor = 2
               /\ retryConfig.maxDelayMs = 30000)
                => /\ scheduled.attempt = 0 => scheduled.delay = 1000 * DelayUnit
                   /\ scheduled.attempt = 1 => scheduled.delay = 2000 * DelayUnit

\* C15 witness: the second retry of the 1000 ms / factor 2 configuration,
\* scheduled with a delay of 2000 ms.
C15_Witness ==
    /\ scheduled.set
    /\ retryConfig.jitterPct = 0
    /\ retryConfig.initialDelayMs = 1000
    /\ retryConfig.backoffFactor = 2
    /\ retryConfig.maxDelayMs = 30000
    /\ scheduled.attempt = 1
    /\ scheduled.delay = 2000 * DelayUnit

\* C16: for every jitterFactor j in [0, 1] and every random draw the delay d
\* satisfies min(base * (1 - j), maxDelayMs) <= d <= min(base * (1 + j),
\* maxDelayMs), so d is never above maxDelayMs and never negative.
C16_DelayWithinJitterBand ==
    scheduled.set
        => /\ Min(ScheduledBase * (100 - retryConfig.jitterPct) * RandomSteps,
                  retryConfig.maxDelayMs * DelayUnit) <= scheduled.delay
           /\ scheduled.delay
                <= Min(ScheduledBase * (100 + retryConfig.jitterPct) * RandomSteps,
                       retryConfig.maxDelayMs * DelayUnit)
           /\ scheduled.delay <= retryConfig.maxDelayMs * DelayUnit
           /\ scheduled.delay >= 0

\* C16 witness: a base delay above maxDelayMs that the jitter brings below it
\* (the clamp does not apply and the delay sits at the lower edge of the band).
C16_Witness ==
    /\ scheduled.set
    /\ retryConfig.jitterPct = 50
    /\ ScheduledBase > retryConfig.maxDelayMs
    /\ scheduled.delay < retryConfig.maxDelayMs * DelayUnit
    /\ scheduled.delay = ScheduledBase * 50 * RandomSteps

\* The connections that were created and not closed.
LiveInstances == {i \in 1..Len(instances) : ~instances[i].closed}

\* C17: in every reachable state at most one connection is live.
C17_AtMostOneLiveConnection ==
    Cardinality(LiveInstances) <= 1

\* C17 witness: a fired retry has created a connection while the one before
\* it was live, and only the new one is live.
C17_Witness ==
    /\ last.op = "timer"
    /\ last.live
    /\ Created >= 2
    /\ LiveInstances = {Created}
    /\ eventSourceRef = Created

\* C18: at most one retry timer is pending at any time.
C18_AtMostOnePendingRetry ==
    Cardinality(timers) <= 1

\* C19: a retry that fires while the subscription is live sets retryCount to
\* attempt + 1, opens a new connection and binds the listeners to it.
C19_FiredRetryBindsHandlers ==
    [][ (isMounted /\ last'.op = "timer")
        => /\ queued'.retryCount = last'.rc + 1
           /\ Created' = Created + 1
           /\ eventSourceRef' = Created'
           /\ instances'[eventSourceRef'].bound ]_vars

\* C20: an error signal handled with an attempt count >= maxAttempts sets
\* status ERROR and error MAX_RETRY_EXCEEDED and schedules nothing, whatever
\* shouldRetry returns.
C20_LimitBeforeShouldRetry ==
    [][ (isMounted /\ last'.op = "error" /\ last'.handled
                   /\ last'.rc >= maxAttempts)
        => /\ queued'.status = "ERROR"
           /\ queued'.error = MaxRetry
           /\ timers' = timers ]_vars

\* C21 as stated: in every reachable state, status = OPEN implies that error
\* is absent, in the committed render and in the state the queued updates
\* lead to.
C21_OpenImpliesNoError ==
    /\ status = "OPEN" => error = "null"
    /\ queued.status = "OPEN" => queued.error = "null"

\* C21 amended: in every reachable state, status = OPEN implies that error is
\* absent or is a PARSE_ERROR; no connection error and no MAX_RETRY_EXCEEDED
\* is ever held while status is OPEN.
C21_OpenImpliesNoTransportError ==
    /\ status = "OPEN" => error \in {"null", "PARSE_ERROR"}
    /\ queued.status = "OPEN" => queued.error \in {"null", "PARSE_ERROR"}

\* C21 witness: a render has committed status OPEN together with the
\* PARSE_ERROR of a malformed message that arrived while OPEN.
C21_Witness ==
    /\ last.op = "render"
    /\ status = "OPEN"
    /\ error = "PARSE_ERROR"

\* eventSourceRef.current holds a connection that is not closed.
HandleLive == eventSourceRef # 0 /\ ~instances[eventSourceRef].closed

\* C22: while the subscription is live, status = OPEN implies that a live
\* connection handle exists, and a handled open signal was delivered by the
\* current handle (the one live connection, with its listeners bound): a
\* connection that close(), a fired retry or reconnect() closed or replaced
\* never sets status to OPEN.
C22_OpenImpliesLiveHandle ==
    /\ (isMounted /\ queued.status = "OPEN") => HandleLive
    /\ (isMounted /\ last.op = "open" /\ last.handled)
            => /\ HandleLive
               /\ instances[eventSourceRef].bound
               /\ LiveInstances = {eventSourceRef}

\* C22 witness: an open signal handled by the current connection, the third
\* or a later one created (those before it were closed or replaced), while a
\* retry is pending.
C22_Witness ==
    /\ isMounted
    /\ last.op = "open"
    /\ last.handled
    /\ queued.status = "OPEN"
    /\ eventSourceRef = Created
    /\ Created >= 3
    /\ Cardinality(timers) >= 1

\* C23: in every reachable state 0 <= retryCount <= maxAttempts (in the
\* committed render and after the queued updates), and every retry that is
\* scheduled was scheduled for an attempt count n with 0 <= n < maxAttempts.
C23_RetryCountWithinLimit ==
    /\ retryCount \in 0..maxAttempts
    /\ queued.retryCount \in 0..maxAttempts
    /\ \A t \in timers : t.attempt \in 0..(maxAttempts - 1)

\* C23 witness: the last retry allowed has fired and brought retryCount to
\* maxAttempts, while another retry for the same attempt is pending.
C23_Witness ==
    /\ last.op = "timer"
    /\ last.live
    /\ maxAttempts >= 1
    /\ timers # {}
    /\ last.rc = maxAttempts - 1
    /\ queued.retryCount = maxAttempts

\* The terminal state: ERROR with MAX_RETRY_EXCEEDED.
Terminal == queued.status = "ERROR" /\ queued.error = MaxRetry

\* C24: with the default shouldRetry, nothing but error signals, and no
\* close(), reconnect() or teardown, the session enters the terminal state
\* ERROR / MAX_RETRY_EXCEEDED when exactly maxAttempts retries have fired and
\* none is pending, and from then on it stays there: no connection is opened
\* and no retry fires or is scheduled.
C24_ExhaustsAfterMaxAttempts ==
    [][ /\ (~Terminal /\ Terminal')
            => /\ retriesFired' = maxAttempts
               /\ timers' = {}
        /\ Terminal
            => /\ Terminal'
               /\ Created' = Created
               /\ retriesFired' = retriesFired
               /\ timers' = {} ]_vars

\* C25: whenever a retry is pending, status is ERROR; and a retry that fires
\* while the subscription is live and status is OPEN leaves the OPEN
\* connection in place and retryCount at 0.
C25_NoRetryAgainstOpenConnection ==
    /\ timers # {} => queued.status = "ERROR"
    /\ (last.op = "timer" /\ last.live /\ last.pre.status = "OPEN")
            => /\ queued.status = "OPEN"
               /\ queued.retryCount = 0
               /\ HandleLive
               /\ instances[eventSourceRef].bound
====
